---- MODULE Spec2Model ----
(***************************************************************************)
(* Model of sd-inference-server: the model cache of storage.py             *)
(* (ModelStorage) and the adapter network of lora.py (LoRANetwork).        *)
(*                                                                         *)
(* Paths, names and serialized keys are sequences of tokens, so that the   *)
(* code's substring tests ("in"), split and replace are computed.          *)
(***************************************************************************)
EXTENDS Integers, Sequences, FiniteSets, TLC

VARIABLES
    disk,         \* the model folder's files, in the order glob returns them
    files,        \* self.files: class -> names, in insertion order
    loaded,       \* self.loaded: class -> <<[name, device]>>, in insertion order
    file_cache,   \* self.file_cache: file -> the classes of its raw mapping
    vram_limits,  \* self.vram_limits
    ram_limits,   \* self.ram_limits
    built,        \* <<class, name>> pairs from_model has been called for
    ret,          \* what the last call of the storage did
    net_name,     \* LoRANetwork.net_name
    modules,      \* the network's modules: layer name -> module
    decomposition,\* LoRANetwork.decomposition: layer name -> (U, S, Vh, size)
    net_dtype,    \* the precision the network's modules are held at
    compose_calls,    \* runs of compose() on this network instance
    decompose_calls,  \* runs of decompose() for this network instance
    net_ret,      \* what the last call on the network did
    emitted,      \* what the last call of get_key_at_rank emitted
    model_static, \* model.static: network name -> baseline strength
    strength,     \* what model.get_strength(0, name) returns now
    model_layers, \* model.modules: the layer names of the model
    merged,       \* attach_lora(module, True) calls: <<net name, layer name>> -> count
    held          \* the layers of the model that hold a live adapter module

storage_vars == <<disk, files, loaded, file_cache, vram_limits, ram_limits, built, ret>>

network_vars == <<net_name, modules, decomposition, net_dtype, compose_calls,
                  decompose_calls, net_ret, emitted>>

model_vars == <<model_static, strength, model_layers, merged, held>>

vars == <<storage_vars, network_vars, model_vars>>

----------------------------------------------------------------------------
(* Bounds *)

\* the largest host (RAM) limit a deployment is configured with
MaxRamLimit == 1

\* the limits enforce_limit is tried with as a pure function
MaxLimit == 2

\* the largest used set of a request
MaxUsed == 2

\* the most runs of compose() on one network instance
MaxCalls == 2

----------------------------------------------------------------------------
(* Strings as token sequences *)

\* Python's "sub in s"
Contains(sub, s) ==
    \E i \in 1..(Len(s) - Len(sub) + 1) : SubSeq(s, i, i + Len(sub) - 1) = sub

\* str.endswith
EndsWith(s, suffix) ==
    /\ Len(s) >= Len(suffix)
    /\ SubSeq(s, Len(s) - Len(suffix) + 1, Len(s)) = suffix

\* the elements of a sequence
Range(s) == {s[i] : i \in 1..Len(s)}

\* the values of a mapping
Values(f) == {f[x] : x \in DOMAIN f}

sep == "/"

\* self.path, the model folder
path == <<"models">>

Classes == {"UNET", "CLIP", "VAE", "SR", "LoRA", "HN", "CN"}

\* the classes of self.vram_limits / self.ram_limits
Hard == {"UNET", "CLIP", "VAE", "SR"}

\* the classes pruned by enforce_network_limit
Networks == {"LoRA", "HN", "CN"}

Devices == {"cpu", "cuda"}

MODEL_FOLDERS ==
    [SD   |-> <<"SD", "Stable-diffusion", "VAE">>,
     SR   |-> <<"SR", "ESRGAN", "RealESRGAN">>,
     LoRA |-> <<"LoRA">>,
     HN   |-> <<"HN", "hypernetworks">>,
     CN   |-> <<"CN", "ControlNet">>]

----------------------------------------------------------------------------
(* The files a model folder may hold *)

SD1 == path \o <<sep, "SD", sep, "m1", ".", "safetensors">>
SD2 == path \o <<sep, "SD", sep, "m2", ".", "safetensors">>
SDV == path \o <<sep, "VAE", sep, "v", ".", "vae", ".", "pt">>
SDX == path \o <<sep, "SD", sep, "_", "old", ".", "ckpt">>
SR1 == path \o <<sep, "SR", sep, "x1", ".", "pth">>
SR2 == path \o <<sep, "ESRGAN", sep, "x2", ".", "pth">>
SR3 == path \o <<sep, "SR", sep, "x3", ".", "pth">>
LA  == path \o <<sep, "LoRA", sep, "a", ".", "safetensors">>
LAV == path \o <<sep, "LoRA", sep, "a", ".", "v2", ".", "safetensors">>
LB  == path \o <<sep, "LoRA", sep, "sub", sep, "b", ".", "pt">>
HN1 == path \o <<sep, "HN", sep, "h", ".", "pt">>
CN1 == path \o <<sep, "CN", sep, "c", ".", "safetensors">>

\* the folders the storage is run on, each a glob order of its files:
\* folders of upscalers and checkpoints,
HardFolders == { <<SR1, SR2, SR3>>, <<SD2, SDV, SDX>> }

\* folders of adapters,
AdapterFolders == { <<LA, LAV, LB>>, <<LAV, LA>>, <<LB, HN1, CN1>> }

\* and a folder of both
MixedFolders == { <<SD1, LA>>, <<SD2, SR1, HN1>> }

\* the sub-mappings convert/parse_model find in a checkpoint: the second
\* path component of its keys.  m2 is a checkpoint without a VAE.
SubComponents(file) ==
    IF file = SD2 THEN {"UNET", "CLIP"}
    ELSE IF file = SDV THEN {"VAE"}
    ELSE {"UNET", "CLIP", "VAE"}

----------------------------------------------------------------------------
(* File discovery *)

\* glob.glob(os.path.join(path, f, "**", "*." + e)), or without "**" when
\* not recursive, over the folder's files in glob order
glob(f, e, recursive) ==
    LET prefix == path \o <<sep, f, sep>>
        hit(file) ==
            /\ Len(file) > Len(prefix)
            /\ SubSeq(file, 1, Len(prefix)) = prefix
            /\ EndsWith(file, <<".", e>>)
            /\ recursive \/ ~Contains(<<sep>>, SubSeq(file, Len(prefix) + 1, Len(file)))
    IN  SelectSeq(disk, hit)

RECURSIVE glob_exts(_, _, _)
glob_exts(f, ext, recursive) ==
    IF ext = <<>> THEN <<>>
    ELSE glob(f, Head(ext), recursive) \o glob_exts(f, Tail(ext), recursive)

RECURSIVE glob_folders(_, _, _)
glob_folders(fs, ext, recursive) ==
    IF fs = <<>> THEN <<>>
    ELSE glob_exts(Head(fs), ext, recursive) \o glob_folders(Tail(fs), ext, recursive)

get_models(folder, ext, recursive) ==
    LET shown(f) == ~Contains(<<sep, "_">>, f)
    IN  SelectSeq(glob_folders(MODEL_FOLDERS[folder], ext, recursive), shown)

\* os.path.relpath(file, self.path)
get_name(file) == SubSeq(file, Len(path) + 2, Len(file))

\* the entries name -> file of a sequence of files
Entries(fs) == [i \in 1..Len(fs) |-> [name |-> get_name(fs[i]), file |-> fs[i]]]

find_all ==
    LET sd == get_models("SD", <<"safetensors", "ckpt", "pt">>, TRUE)
        is_unet(f) == Contains(<<".", "unet", ".">>, f)
        is_clip(f) == ~is_unet(f) /\ Contains(<<".", "clip", ".">>, f)
        is_vae(f)  == ~is_unet(f) /\ ~is_clip(f) /\ Contains(<<".", "vae", ".">>, f)
        whole(f)   == ~is_unet(f) /\ ~is_clip(f) /\ ~is_vae(f)
    IN  [c \in Classes |->
            CASE c = "UNET" -> Entries(SelectSeq(sd, whole) \o SelectSeq(sd, is_unet))
              [] c = "CLIP" -> Entries(SelectSeq(sd, whole) \o SelectSeq(sd, is_clip))
              [] c = "VAE"  -> Entries(SelectSeq(sd, whole) \o SelectSeq(sd, is_vae))
              [] c = "SR"   -> Entries(get_models("SR", <<"pth">>, TRUE))
              [] c = "LoRA" -> Entries(get_models("LoRA", <<"safetensors", "pt">>, TRUE))
              [] c = "HN"   -> Entries(get_models("HN", <<"pt">>, TRUE))
              [] c = "CN"   -> Entries(get_models("CN", <<"safetensors", "pth">>, FALSE))]

\* "name in self.files[comp]" and self.files[comp][name]
Known(comp, name) == \E i \in 1..Len(files[comp]) : files[comp][i].name = name

FileOf(comp, name) ==
    LET i == CHOOSE i \in 1..Len(files[comp]) : files[comp][i].name = name
    IN  files[comp][i].file

\* a faulty load_file whose mapping has an entry for whatever class is asked
\* (C6 tells it from load_file)
load_file_any(file, comp) == SubComponents(file) \cup {comp}

\* load_file: the raw mapping's classes
load_file(file, comp) ==
    IF comp \in {"UNET", "CLIP", "VAE"} THEN SubComponents(file) ELSE {comp}

----------------------------------------------------------------------------
(* The record lists of one class *)

Names(L) == {L[i].name : i \in 1..Len(L)}

DeviceOf(L, m) == LET i == CHOOSE i \in 1..Len(L) : L[i].name = m IN L[i].device

\* model.to(device): the record is moved in place, its place in the dict kept
SetDevice(L, m, device) ==
    [i \in 1..Len(L) |-> IF L[i].name = m THEN [L[i] EXCEPT !.device = device] ELSE L[i]]

\* del self.loaded[comp][m]
Delete(L, m) == LET keep(r) == r.name # m IN SelectSeq(L, keep)

\* self.loaded[comp][name] = model: a new key goes last, a key the dict holds
\* keeps its place
Insert(L, name, device) ==
    IF name \in Names(L) THEN SetDevice(L, name, device)
    ELSE Append(L, [name |-> name, device |-> device])

OnDevice(L, device) == {m \in Names(L) : DeviceOf(L, m) = device}

InVram(L) == {m \in Names(L) : DeviceOf(L, m) # "cpu"}

InRam(L) == {m \in Names(L) : DeviceOf(L, m) = "cpu"}

----------------------------------------------------------------------------
(* enforce_limit *)

RECURSIVE enforce_loop(_, _, _, _, _, _, _)
enforce_loop(keys, L, current, allowed_vram, allowed_ram, found_vram, found_ram) ==
    IF keys = <<>> THEN L
    ELSE
      LET m == Head(keys)
          rest == Tail(keys)
          in_ram == DeviceOf(L, m) = "cpu"
      IN  IF m = current
          THEN enforce_loop(rest, L, current, allowed_vram, allowed_ram, found_vram, found_ram)
          ELSE IF found_vram >= allowed_vram /\ ~in_ram
          THEN IF found_ram < allowed_ram
               THEN enforce_loop(rest, SetDevice(L, m, "cpu"), current,
                                 allowed_vram, allowed_ram, found_vram, found_ram + 1)
               ELSE enforce_loop(rest, Delete(L, m), current,
                                 allowed_vram, allowed_ram, found_vram, found_ram)
          ELSE IF found_ram >= allowed_ram /\ in_ram
          THEN enforce_loop(rest, Delete(L, m), current,
                            allowed_vram, allowed_ram, found_vram, found_ram)
          ELSE IF in_ram
          THEN enforce_loop(rest, L, current, allowed_vram, allowed_ram, found_vram, found_ram + 1)
          ELSE enforce_loop(rest, L, current, allowed_vram, allowed_ram, found_vram + 1, found_ram)

\* enforce_limit(current, comp, device) on the records L of comp, under the
\* limits of comp
enforce_limit(L, current, allowed_vram, allowed_ram, device) ==
    enforce_loop([i \in 1..Len(L) |-> L[i].name], L, current, allowed_vram, allowed_ram,
                 IF device = "cpu" THEN 0 ELSE 1,
                 IF device = "cpu" THEN 1 ELSE 0)

\* a faulty move that places the record without enforce_limit (C2 tells it
\* from move)
move_unlimited(L, name, comp, device) ==
    IF DeviceOf(L, name) = device THEN L ELSE SetDevice(L, name, device)

\* move(model, name, comp, device) for the record of name in L
move(L, name, comp, device) ==
    IF DeviceOf(L, name) = device THEN L
    ELSE LET L1 == IF comp \in DOMAIN vram_limits
                   THEN enforce_limit(L, name, vram_limits[comp], ram_limits[comp], device)
                   ELSE L
         IN  SetDevice(L1, name, device)

----------------------------------------------------------------------------
(* The operations of ModelStorage *)

\* what a call did: its outcome ("ok", or the ValueError raised: "unknown" /
\* "missing", with the class and the name its message carries), whether it
\* called the builder from_model, whether it read the file from disk, and
\* the records it removed from the cache and moved to the host
Ret(op, comp, name, outcome, was_built, was_read, evicted, demoted) ==
    [op |-> op, comp |-> comp, name |-> name,
     outcome |-> outcome, built |-> was_built, read |-> was_read,
     evicted |-> evicted, demoted |-> demoted]

Done(op) == Ret(op, "", <<>>, "ok", FALSE, FALSE, {}, {})

\* the records of L that L1 no longer holds
Evicted(L, L1) == Names(L) \ Names(L1)

\* the records other than name that L holds off the host and L1 on it
Demoted(L, L1, name) ==
    {m \in (Names(L) \cap Names(L1)) \ {name} :
        DeviceOf(L, m) # "cpu" /\ DeviceOf(L1, m) = "cpu"}

\* a name no folder holds
Nowhere == <<"SD", sep, "nowhere", ".", "ckpt">>

\* the names callers ask a class for
Asked(comp) == {files[comp][i].name : i \in 1..Len(files[comp])} \cup {Nowhere}

\* the short names callers ask get_lora / get_hypernetwork / get_controlnet for
ShortNames ==
    [LoRA |-> {<<"a">>, <<"b">>, get_name(LA), <<"nowhere">>},
     HN   |-> {<<"h">>, <<"nowhere">>},
     CN   |-> {<<"c">>}]

\* the used sets of a request: short names and full names
UsedIds == {<<"a">>, <<"h">>, get_name(LAV)}

UsedSets == {used \in SUBSET UsedIds : Cardinality(used) <= MaxUsed}

\* a faulty test that never finds the record (C5 tells it from resident)
resident_never(comp, name) == FALSE

\* "name in self.loaded[comp]"
resident(comp, name) == name \in Names(loaded[comp])

get_component(name, comp, device) ==
    IF resident(comp, name)
    THEN LET L1 == move(loaded[comp], name, comp, device)
         IN  /\ loaded' = [loaded EXCEPT ![comp] = L1]
             /\ ret' = Ret("get_component", comp, name, "ok", FALSE, FALSE,
                           Evicted(loaded[comp], L1), Demoted(loaded[comp], L1, name))
             /\ UNCHANGED <<disk, files, file_cache, vram_limits, ram_limits, built>>
    ELSE IF ~Known(comp, name)
    THEN /\ ret' = Ret("get_component", comp, name, "unknown", FALSE, FALSE, {}, {})
         /\ UNCHANGED <<disk, files, loaded, file_cache, vram_limits, ram_limits, built>>
    ELSE
      LET file == FileOf(comp, name)
          cached == file \in DOMAIN file_cache
          cache1 == IF cached THEN file_cache
                    ELSE (file :> load_file(file, comp)) @@ file_cache
          L1 == move(Insert(loaded[comp], name, "cpu"), name, comp, device)
      IN  /\ file_cache' = cache1
          /\ IF comp \in cache1[file]
             THEN /\ loaded' = [loaded EXCEPT ![comp] = L1]
                  /\ built' = built \cup {<<comp, name>>}
                  /\ ret' = Ret("get_component", comp, name, "ok", TRUE, ~cached,
                                Evicted(loaded[comp], L1), Demoted(loaded[comp], L1, name))
             ELSE /\ ret' = Ret("get_component", comp, name, "missing", FALSE, ~cached,
                                {}, {})
                  /\ UNCHANGED <<loaded, built>>
          /\ UNCHANGED <<disk, files, vram_limits, ram_limits>>

\* the loop of get_lora, get_hypernetwork and get_controlnet: the first name
\* of the class that holds sep + name + ".", else the name itself
resolve(comp, name) ==
    LET hits == {i \in 1..Len(files[comp]) :
                    Contains(<<sep>> \o name \o <<".">>, files[comp][i].name)}
    IN  IF hits = {} THEN name
        ELSE files[comp][CHOOSE i \in hits : \A j \in hits : i <= j].name

get_lora(name, device) == get_component(resolve("LoRA", name), "LoRA", device)

get_hypernetwork(name, device) == get_component(resolve("HN", name), "HN", device)

get_controlnet(name, device) == get_component(resolve("CN", name), "CN", device)

\* load(model, device), for a record the cache holds
load(comp, name, device) ==
    /\ name \in Names(loaded[comp])
    /\ loaded' = [loaded EXCEPT ![comp] = SetDevice(loaded[comp], name, device)]
    /\ ret' = Done("load")
    /\ UNCHANGED <<disk, files, file_cache, vram_limits, ram_limits, built>>

\* unload(model), for a record the cache holds
unload(comp, name) ==
    /\ name \in Names(loaded[comp])
    /\ loaded' = [loaded EXCEPT ![comp] = SetDevice(loaded[comp], name, "cpu")]
    /\ ret' = Done("unload")
    /\ UNCHANGED <<disk, files, file_cache, vram_limits, ram_limits, built>>

reset ==
    /\ loaded' = [c \in Classes |-> <<>>]
    /\ file_cache' = <<>>
    /\ files' = find_all
    /\ ret' = Ret("reset", "", <<>>, "ok", FALSE, FALSE,
                  UNION {Names(loaded[c]) : c \in Classes}, {})
    /\ UNCHANGED <<disk, vram_limits, ram_limits, built>>

\* a faulty clear_modified that clears every class (C9 tells it from
\* clear_modified)
clear_modified_all ==
    /\ loaded' = [c \in Classes |-> <<>>]
    /\ file_cache' = <<>>
    /\ ret' = Ret("clear_modified", "", <<>>, "ok", FALSE, FALSE,
                  Names(loaded["UNET"]) \cup Names(loaded["CLIP"]), {})
    /\ UNCHANGED <<disk, files, vram_limits, ram_limits, built>>

clear_modified ==
    /\ loaded' = [c \in Classes |-> IF c \in {"UNET", "CLIP"} THEN <<>> ELSE loaded[c]]
    /\ file_cache' = <<>>
    /\ ret' = Ret("clear_modified", "", <<>>, "ok", FALSE, FALSE,
                  Names(loaded["UNET"]) \cup Names(loaded["CLIP"]), {})
    /\ UNCHANGED <<disk, files, vram_limits, ram_limits, built>>

\* "any([os.path.sep+u+'.' in m or m == u for u in used])"
is_used(m, used) == \E u \in used : Contains(<<sep>> \o u \o <<".">>, m) \/ m = u

RECURSIVE network_loop(_, _, _)
network_loop(keys, L, used) ==
    IF keys = <<>> THEN L
    ELSE IF is_used(Head(keys), used) THEN network_loop(Tail(keys), L, used)
    ELSE network_loop(Tail(keys), Delete(L, Head(keys)), used)

enforce_network_limit(used, comp) ==
    LET L1 == network_loop([i \in 1..Len(loaded[comp]) |-> loaded[comp][i].name],
                           loaded[comp], used)
    IN  /\ loaded' = [loaded EXCEPT ![comp] = L1]
        /\ ret' = Ret("enforce_network_limit", comp, <<>>, "ok", FALSE, FALSE,
                      Evicted(loaded[comp], L1), {})
        /\ UNCHANGED <<disk, files, file_cache, vram_limits, ram_limits, built>>

----------------------------------------------------------------------------
(* The storage as a state machine *)

\* ModelStorage.__init__ on one of the folders.  The limits are the defaults
\* of __init__, with the host limit raised by the deployment or not.
StorageInit(folders) ==
    /\ disk \in folders
    /\ files = find_all
    /\ loaded = [c \in Classes |-> <<>>]
    /\ file_cache = <<>>
    /\ vram_limits = [c \in Hard |-> 1]
    /\ \E r \in 0..MaxRamLimit : ram_limits = [c \in Hard |-> r]
    /\ built = {}
    /\ ret = Done("init")

GetComponent ==
    /\ \E comp \in Hard, d \in Devices : \E name \in Asked(comp) :
           get_component(name, comp, d)
    /\ UNCHANGED <<network_vars, model_vars>>

GetNetwork ==
    /\ \E comp \in Networks, d \in Devices : \E name \in Asked(comp) :
           get_component(name, comp, d)
    /\ UNCHANGED <<network_vars, model_vars>>

GetLora ==
    /\ \E name \in ShortNames["LoRA"], d \in Devices : get_lora(name, d)
    /\ UNCHANGED <<network_vars, model_vars>>

GetHypernetwork ==
    /\ \E name \in ShortNames["HN"], d \in Devices : get_hypernetwork(name, d)
    /\ UNCHANGED <<network_vars, model_vars>>

GetControlnet ==
    /\ \E name \in ShortNames["CN"], d \in Devices : get_controlnet(name, d)
    /\ UNCHANGED <<network_vars, model_vars>>

Load ==
    /\ \E comp \in Classes, d \in Devices : \E name \in Names(loaded[comp]) :
           load(comp, name, d)
    /\ UNCHANGED <<network_vars, model_vars>>

Unload ==
    /\ \E comp \in Classes : \E name \in Names(loaded[comp]) : unload(comp, name)
    /\ UNCHANGED <<network_vars, model_vars>>

Reset == reset /\ UNCHANGED <<network_vars, model_vars>>

ClearModified == clear_modified /\ UNCHANGED <<network_vars, model_vars>>

EnforceNetworkLimit ==
    /\ \E comp \in Networks, used \in UsedSets :
           enforce_network_limit(used, comp)
    /\ UNCHANGED <<network_vars, model_vars>>

\* a storage nothing is asked of
StorageIdle ==
    /\ disk = <<>>
    /\ files = [c \in Classes |-> <<>>]
    /\ loaded = [c \in Classes |-> <<>>]
    /\ file_cache = <<>>
    /\ vram_limits = [c \in Hard |-> 1]
    /\ ram_limits = [c \in Hard |-> 0]
    /\ built = {}
    /\ ret = Done("init")

StorageNext ==
    \/ GetComponent
    \/ GetNetwork
    \/ GetLora
    \/ GetHypernetwork
    \/ GetControlnet
    \/ Load
    \/ Unload
    \/ Reset
    \/ ClearModified
    \/ EnforceNetworkLimit

----------------------------------------------------------------------------
(* Serialized adapter keys *)

\* the layer names of the serialized networks
LX == <<"lora_", "unet_x">>
LY == <<"lora_", "unet_", "op">>

LayerNames == {LX, LY}

UP    == <<"lora_up", ".", "weight">>
DOWN  == <<"lora_down", ".", "weight">>
ALPHA == <<"alpha">>
W1A   == <<"hada_", "w1_a">>
W1B   == <<"hada_", "w1_b">>
W2A   == <<"hada_", "w2_a">>
W2B   == <<"hada_", "w2_b">>
LOKR  == <<"lokr_", "w1">>
MID   == <<"mid_", "weight">>

\* torch.linalg.svd keeps at most this many components (decompose)
SvdKeep == 256

\* a tensor: its shape, and its value when it is a scalar
Tensor(shape) == [shape |-> shape, value |-> 0]

Scalar(v) == [shape |-> <<>>, value |-> v]

\* the key sets one layer name may come with: suffix -> tensor
Linear == (UP :> Tensor(<<3, 2>>)) @@ (DOWN :> Tensor(<<2, 4>>))

Conv == (UP :> Tensor(<<3, 2, 1, 1>>)) @@ (DOWN :> Tensor(<<2, 4, 3, 3>>))

Hadamard ==
    (W1A :> Tensor(<<3, 2>>)) @@ (W1B :> Tensor(<<2, 4>>)) @@
    (W2A :> Tensor(<<3, 2>>)) @@ (W2B :> Tensor(<<2, 4>>))

Partitions ==
    { <<>>,
      Linear,
      Linear @@ (ALPHA :> Scalar(1)),
      Conv,
      Hadamard,
      Linear @@ (LOKR :> Tensor(<<3, 2>>)),
      Hadamard @@ (MID :> Tensor(<<2, 2>>)) }

\* layers with more than SvdKeep inputs and outputs, linear and convolutional
Wide == (UP :> Tensor(<<SvdKeep + 1, 2>>)) @@ (DOWN :> Tensor(<<2, SvdKeep + 2>>))

WideConv ==
    (UP :> Tensor(<<SvdKeep + 1, 2, 1, 1>>)) @@ (DOWN :> Tensor(<<2, SvdKeep + 2, 3, 3>>))

\* the state dict of layer -> partition
StateDictOf(parts) ==
    LET keys == UNION {{l \o <<".">> \o sfx : sfx \in DOMAIN parts[l]} : l \in LayerNames}
        layer(k) == CHOOSE l \in LayerNames : \E sfx \in DOMAIN parts[l] : k = l \o <<".">> \o sfx
        suffix(k) == SubSeq(k, Len(layer(k)) + 2, Len(k))
    IN  [k \in keys |-> parts[layer(k)][suffix(k)]]

\* the state dicts from_state_dict is called with
StateDicts == {StateDictOf(parts) : parts \in [LayerNames -> Partitions]}

\* the state dicts of the networks that are attached to a model
AttachedDicts ==
    {StateDictOf(parts) : parts \in [LayerNames -> {<<>>, Linear, Hadamard}]}

\* the state dicts of the networks that are decomposed and rebuilt at a
\* rank: one layer each
RankedDicts ==
    {StateDictOf([l \in LayerNames |-> IF l = LX THEN p ELSE <<>>]) :
        p \in {<<>>, Linear, Conv, Wide, WideConv}}

\* k.split(".")[0]
split_name(k) ==
    IF "." \in Range(k)
    THEN SubSeq(k, 1, (CHOOSE i \in 1..Len(k) : k[i] = "." /\ \A j \in 1..(i - 1) : k[j] # ".") - 1)
    ELSE k

----------------------------------------------------------------------------
(* LoRAModule, LoHAModule *)

\* LoRAModule.__init__ / LoHAModule.__init__: "alpha or dim"
Module(kind, layer_name, shape, dim, alpha, kernel, stride, padding) ==
    [kind |-> kind, layer_name |-> layer_name, shape |-> shape, dim |-> dim,
     alpha |-> IF alpha = 0 THEN dim ELSE alpha,
     kernel |-> kernel, stride |-> stride, padding |-> padding]

\* LoRAModule.from_weights; alpha 0 stands for None, kernel 0 for a linear layer
LoRA_from_weights(layer_name, lora_up, lora_down, alpha) ==
    LET shape == <<lora_up.shape[1], lora_down.shape[2]>>
        dim == lora_down.shape[1]
    IN  IF Len(lora_down.shape) > 2
        THEN LET kernel == lora_down.shape[3]
                 padding == IF kernel = 3 THEN 1 ELSE 0
                 stride == IF Contains(<<"downsamplers">>, layer_name)
                              \/ Contains(<<"op">>, layer_name)
                           THEN 2 ELSE 1
             IN  Module("LoRA", layer_name, shape, dim, alpha, kernel, stride, padding)
        ELSE Module("LoRA", layer_name, shape, dim, alpha, 0, 0, 0)

\* LoHAModule.from_weights
LoHA_from_weights(layer_name, w1_a, w1_b, w2_a, w2_b, alpha) ==
    Module("LoHA", layer_name, <<w1_a.shape[1], w1_b.shape[2]>>, w1_a.shape[2], alpha, 0, 0, 0)

\* the shape of LoRAModule.get_weight()
get_weight(m) ==
    IF m.kernel = 0 THEN m.shape
    ELSE <<m.shape[1], m.shape[2], m.kernel, m.kernel>>

----------------------------------------------------------------------------
(* LoRANetwork *)

NetNames == {"n1", "n2"}

Min(a, b) == IF a <= b THEN a ELSE b

\* what a call on the network did: its outcome ("ok", or the message of the
\* error raised), the keys or layer names it was given, whether
\* load_state_dict reported missing keys, and its calls of the callback
NetRet(op, outcome, keys, reported, callbacks) ==
    [op |-> op, outcome |-> outcome, keys |-> keys, reported |-> reported,
     callbacks |-> callbacks]

\* the parameter and buffer keys load_state_dict expects of a module
expected_keys(m) ==
    {m.layer_name \o <<".">> \o sfx :
        sfx \in IF m.kind = "LoRA" THEN {UP, DOWN, ALPHA} ELSE {W1A, W1B, W2A, W2B, ALPHA}}

\* faulty checks that let the middle-factor marker through (C7 tells them
\* from unsupported)
unsupported_lokr_only(keys) ==
    IF \E k \in keys : Contains(<<".", "lokr_">>, k)
    THEN "LoKR models are not supported"
    ELSE ""

\* the checks build_modules starts with: the error raised, "" when none is
unsupported(keys) ==
    IF \E k \in keys : Contains(<<".", "lokr_">>, k)
    THEN "LoKR models are not supported"
    ELSE IF \E k \in keys : Contains(<<".", "mid_">>, k)
    THEN "CP-Decomposition is not supported"
    ELSE ""

\* build_modules(state_dict) on a network holding mods: the outcomes it can
\* end with.  The names are visited in set order, so a KeyError leaves the
\* modules of any set of complete names added before it.
build_modules(mods, state_dict) ==
    LET keys == DOMAIN state_dict
        names == {split_name(k) : k \in keys}
        is_hada == \E k \in keys : Contains(<<".", "hada_">>, k)
        at(n, sfx) == n \o <<".">> \o sfx
        complete(n) ==
            IF is_hada THEN \A sfx \in {W1A, W1B, W2A, W2B} : at(n, sfx) \in keys
            ELSE \A sfx \in {UP, DOWN} : at(n, sfx) \in keys
        alpha(n) == IF at(n, ALPHA) \in keys THEN state_dict[at(n, ALPHA)].value ELSE 0
        lora(n) ==
            IF is_hada
            THEN LoHA_from_weights(n, state_dict[at(n, W1A)], state_dict[at(n, W1B)],
                                   state_dict[at(n, W2A)], state_dict[at(n, W2B)], alpha(n))
            ELSE LoRA_from_weights(n, state_dict[at(n, UP)], state_dict[at(n, DOWN)], alpha(n))
        add(S) == [l \in (DOMAIN mods) \cup S |-> IF l \in S THEN lora(l) ELSE mods[l]]
        good == {n \in names : complete(n)}
    IN  IF unsupported(keys) # ""
        THEN {[outcome |-> unsupported(keys), modules |-> mods]}
        ELSE IF good = names
        THEN {[outcome |-> "ok", modules |-> add(names)]}
        ELSE {[outcome |-> "KeyError", modules |-> add(S)] : S \in SUBSET good}

from_state_dict(state_dict) ==
    \E r \in build_modules(modules, state_dict) :
        /\ modules' = r.modules
        /\ net_ret' = NetRet("from_state_dict", r.outcome, DOMAIN state_dict,
                             /\ r.outcome = "ok"
                             /\ \E l \in DOMAIN r.modules :
                                    ~(expected_keys(r.modules[l]) \subseteq DOMAIN state_dict),
                             0)
        /\ UNCHANGED <<net_name, decomposition, net_dtype, compose_calls, decompose_calls>>

\* LoRANetwork.__init__
new(name) ==
    /\ net_name' = name
    /\ modules' = <<>>
    /\ decomposition' = <<>>
    /\ net_dtype' = "float32"
    /\ compose_calls' = 0
    /\ decompose_calls' = 0
    /\ net_ret' = NetRet("init", "ok", {}, FALSE, 0)

\* whether compose() raises: get_weight() of a LoHAModule, called with no shape
compose_raises == \E l \in DOMAIN modules : modules[l].kind = "LoHA"

\* compose(): layer name -> the shape of the module's weight
compose == [l \in {modules[n].layer_name : n \in DOMAIN modules} |->
               get_weight(CHOOSE m \in Values(modules) : m.layer_name = l)]

\* one entry of decompose: the shapes of U, S, Vh after truncation, and size
decompose_entry(size) ==
    LET conv2d == Len(size) = 4
        conv2d_3x3 == conv2d /\ <<size[3], size[4]>> # <<1, 1>>
        rows == size[1]
        cols == IF conv2d_3x3 THEN size[2] * size[3] * size[4] ELSE size[2]
    IN  [U |-> <<rows, Min(rows, SvdKeep)>>,
         S |-> Min(Min(rows, cols), SvdKeep),
         Vh |-> <<Min(cols, SvdKeep), cols>>,
         size |-> size]

decompose(state_dict) == [k \in DOMAIN state_dict |-> decompose_entry(state_dict[k])]

precompute_decomposition(callback) ==
    IF DOMAIN decomposition # {}
    THEN /\ net_ret' = NetRet("precompute_decomposition", "cached", {}, FALSE, 0)
         /\ UNCHANGED <<net_name, modules, decomposition, net_dtype, compose_calls,
                        decompose_calls>>
    ELSE /\ compose_calls < MaxCalls
         /\ compose_calls' = compose_calls + 1
         /\ IF compose_raises
            THEN /\ net_dtype' = "float32"
                 /\ net_ret' = NetRet("precompute_decomposition",
                                      "LoHAs cannot currently be merged", {}, FALSE, 0)
                 /\ UNCHANGED <<decomposition, decompose_calls>>
            ELSE /\ net_dtype' = "float16"
                 /\ decompose_calls' = decompose_calls + 1
                 /\ decomposition' = decompose(compose)
                 /\ net_ret' = NetRet("precompute_decomposition", "computed", {}, FALSE,
                                      IF callback THEN Cardinality(DOMAIN compose) ELSE 0)
         /\ UNCHANGED <<net_name, modules>>

\* the ranks and conv_ranks get_key_at_rank is asked for
Ranks == {2, SvdKeep, SvdKeep + 1}

\* what get_key_at_rank emitted for a decomposition of size at rank and
\* conv_rank: the shapes of up and down and the value of alpha, or the error
\* it raised
Key(outcome, size, rank, conv_rank, up, down, alpha) ==
    [op |-> "get_key_at_rank", outcome |-> outcome, size |-> size, rank |-> rank,
     conv_rank |-> conv_rank, up |-> up, down |-> down, alpha |-> alpha]

NoKey == [op |-> "none", outcome |-> "ok", size |-> <<>>, rank |-> 0, conv_rank |-> 0,
          up |-> <<>>, down |-> <<>>, alpha |-> 0]

\* get_key_at_rank(decomposition, rank, conv_rank) on the shapes of one entry:
\* slicing keeps what there is, U @ diag(S) needs the inner sizes to agree,
\* reshape needs the number of elements to agree
get_key_at_rank(entry, rank, conv_rank) ==
    LET size == entry.size
        conv2d == Len(size) = 4
        conv2d_3x3 == conv2d /\ <<size[3], size[4]>> # <<1, 1>>
        out_dim == size[1]
        in_dim == size[2]
        module_new_rank == Min(Min(IF conv2d_3x3 THEN conv_rank ELSE rank, in_dim), out_dim)
        U == <<entry.U[1], Min(entry.U[2], module_new_rank)>>
        S == Min(entry.S, module_new_rank)
        Vh == <<Min(entry.Vh[1], module_new_rank), entry.Vh[2]>>
    IN  IF U[2] # S
        THEN Key("RuntimeError: matmul", size, rank, conv_rank, <<>>, <<>>, 0)
        ELSE IF conv2d /\ \/ U[1] * U[2] # out_dim * module_new_rank
                          \/ Vh[1] * Vh[2] # module_new_rank * in_dim * size[3] * size[4]
        THEN Key("RuntimeError: reshape", size, rank, conv_rank, <<>>, <<>>, 0)
        ELSE IF conv2d
        THEN Key("ok", size, rank, conv_rank, <<out_dim, module_new_rank, 1, 1>>,
                 <<module_new_rank, in_dim, size[3], size[4]>>, module_new_rank)
        ELSE Key("ok", size, rank, conv_rank, U, Vh, module_new_rank)

----------------------------------------------------------------------------
(* attach *)

Strengths == {1, 2}

\* model.get_strength(0, name)
get_strength(name) == strength

\* module.layer_name.replace("lora_", "")
RECURSIVE strip(_)
strip(layer_name) ==
    IF layer_name = <<>> THEN <<>>
    ELSE IF Head(layer_name) = "lora_" THEN strip(Tail(layer_name))
    ELSE <<Head(layer_name)>> \o strip(Tail(layer_name))

\* one more attach_lora call for each of the layers
Count(calls, name, layers) ==
    [p \in (DOMAIN calls) \cup {<<name, l>> : l \in layers} |->
        (IF p \in DOMAIN calls THEN calls[p] ELSE 0)
        + (IF p \in {<<name, l>> : l \in layers} THEN 1 ELSE 0)]

\* a faulty attach without the early return of a static attach that is
\* recorded already (C4 tells it from attach)
attach_again(static) ==
    LET targets == {modules[n].layer_name : n \in
                       {n \in DOMAIN modules : strip(modules[n].layer_name) \in model_layers}}
    IN  /\ model_static' = IF static
                           THEN (net_name :> get_strength(net_name)) @@ model_static
                           ELSE model_static
        /\ merged' = IF static THEN Count(merged, net_name, targets) ELSE merged
        /\ held' = IF static THEN held ELSE held \cup {strip(l) : l \in targets}
        /\ net_ret' = NetRet("attach", IF static THEN "static" ELSE "dynamic",
                             targets, FALSE, 0)

attach(static) ==
    IF static /\ net_name \in DOMAIN model_static
    THEN /\ net_ret' = NetRet("attach", "static already", {}, FALSE, 0)
         /\ UNCHANGED <<model_static, merged, held>>
    ELSE LET targets == {modules[n].layer_name : n \in
                            {n \in DOMAIN modules : strip(modules[n].layer_name) \in model_layers}}
         IN  /\ model_static' = IF static
                                THEN (net_name :> get_strength(net_name)) @@ model_static
                                ELSE model_static
             /\ merged' = IF static THEN Count(merged, net_name, targets) ELSE merged
             /\ held' = IF static THEN held ELSE held \cup {strip(l) : l \in targets}
             /\ net_ret' = NetRet("attach", IF static THEN "static" ELSE "dynamic",
                                  targets, FALSE, 0)

----------------------------------------------------------------------------
(* The network as a state machine *)

NetworkInit ==
    /\ net_name \in NetNames
    /\ modules = <<>>
    /\ decomposition = <<>>
    /\ net_dtype = "float32"
    /\ compose_calls = 0
    /\ decompose_calls = 0
    /\ net_ret = NetRet("init", "ok", {}, FALSE, 0)
    /\ emitted = NoKey

ModelInit ==
    /\ model_static = <<>>
    /\ strength \in Strengths
    /\ model_layers \in {{strip(LX)}, {strip(LX), strip(LY)}}
    /\ merged = <<>>
    /\ held = {}

\* a network and a model nothing is asked of
NetworkIdle ==
    /\ net_name = "n1"
    /\ modules = <<>>
    /\ decomposition = <<>>
    /\ net_dtype = "float32"
    /\ compose_calls = 0
    /\ decompose_calls = 0
    /\ net_ret = NetRet("init", "ok", {}, FALSE, 0)
    /\ emitted = NoKey

ModelIdle ==
    /\ model_static = <<>>
    /\ strength = 1
    /\ model_layers = {}
    /\ merged = <<>>
    /\ held = {}

New == /\ \E name \in NetNames : new(name)
       /\ UNCHANGED <<storage_vars, model_vars, emitted>>

FromStateDict ==
    /\ \E state_dict \in StateDicts : from_state_dict(state_dict)
    /\ UNCHANGED <<storage_vars, model_vars, emitted>>

LoadNetwork ==
    /\ \E state_dict \in AttachedDicts : from_state_dict(state_dict)
    /\ UNCHANGED <<storage_vars, model_vars, emitted>>

PrecomputeDecomposition ==
    /\ \E callback \in BOOLEAN : precompute_decomposition(callback)
    /\ UNCHANGED <<storage_vars, model_vars, emitted>>

Attach ==
    /\ \E static \in BOOLEAN : attach(static)
    /\ UNCHANGED <<storage_vars, net_name, modules, decomposition, net_dtype,
                   compose_calls, decompose_calls, emitted, strength, model_layers>>

LoadRanked ==
    /\ \E state_dict \in RankedDicts : from_state_dict(state_dict)
    /\ UNCHANGED <<storage_vars, model_vars, emitted>>

GetKeyAtRank ==
    /\ \E l \in DOMAIN decomposition, rank \in Ranks, conv_rank \in Ranks :
           emitted' = get_key_at_rank(decomposition[l], rank, conv_rank)
    /\ net_ret' = NetRet("get_key_at_rank", "ok", {}, FALSE, 0)
    /\ UNCHANGED <<storage_vars, model_vars, net_name, modules, decomposition, net_dtype,
                   compose_calls, decompose_calls>>

\* the model's strength for a network changes between requests
SetStrength ==
    /\ \E v \in Strengths \ {strength} : strength' = v
    /\ UNCHANGED <<storage_vars, network_vars, model_static, model_layers, merged, held>>

----------------------------------------------------------------------------
(* Specifications *)

\* the model cache over the hard-limited classes
Init == StorageInit(HardFolders) /\ NetworkIdle /\ ModelIdle

Next == StorageNext

Spec == Init /\ [][Next]_vars

\* the model cache over the adapters
AdaptersInit == StorageInit(AdapterFolders) /\ NetworkIdle /\ ModelIdle

SpecAdapters == AdaptersInit /\ [][Next]_vars

\* the model cache over checkpoints, upscalers and adapters together
MixedInit == StorageInit(MixedFolders) /\ NetworkIdle /\ ModelIdle

SpecMixed == MixedInit /\ [][Next]_vars

\* the model cache of the hard-limited classes under get_component alone
GetsNext == GetComponent

SpecGets == Init /\ [][GetsNext]_vars

\* building a network and decomposing it
NetInit == StorageIdle /\ NetworkInit /\ ModelIdle

NetNext ==
    \/ New
    \/ FromStateDict
    \/ PrecomputeDecomposition

SpecNet == NetInit /\ [][NetNext]_vars

\* decomposing a network and rebuilding its layers at a rank
RankNext ==
    \/ New
    \/ LoadRanked
    \/ PrecomputeDecomposition
    \/ GetKeyAtRank

SpecRank == NetInit /\ [][RankNext]_vars

\* attaching networks to a model
AttachInit == StorageIdle /\ NetworkInit /\ ModelInit

AttachNext ==
    \/ New
    \/ LoadNetwork
    \/ Attach
    \/ SetStrength

SpecAttach == AttachInit /\ [][AttachNext]_vars

----------------------------------------------------------------------------
(* Claims about the model cache *)

\* C1: for every class whose accelerator limit is 1, at most one record of
\* the class that the cache holds is on a device other than cpu, in every
\* state get_component, move, load, unload, reset and clear_modified reach.
\* load(model, device) moves a record without enforce_limit, so this fails.
C1_AtMostOneInVram ==
    \A c \in Hard : vram_limits[c] = 1 => Cardinality(InVram(loaded[c])) <= 1

\* a step by get_component of b at the accelerator that returns, the
\* accelerator limit of the class being 1 and a, another name, its one record
\* off the host
SecondAtAccelerator(c, a, b) ==
    /\ vram_limits[c] = 1
    /\ a # b
    /\ InVram(loaded[c]) = {a}
    /\ get_component(b, c, "cuda")
    /\ ret'.outcome = "ok"

\* after the step a is gone when the host limit is 0 and on cpu when it is
\* 1, and b is the one record off the host
FirstGivesWay(c, a, b) ==
    /\ ram_limits[c] = 0 => a \notin Names(loaded[c])'
    /\ ram_limits[c] = 1 => a \in Names(loaded[c])' /\ DeviceOf(loaded[c], a)' = "cpu"
    /\ InVram(loaded[c])' = {b}

\* C2, as claimed: with accelerator limit 1 and one record a of the class on
\* the accelerator, a get_component of another name b at the accelerator
\* removes a from the cache when the host limit is 0 and leaves a on cpu when
\* the host limit is 1, and b ends on the accelerator.
C2_Original ==
    [][\A c \in Hard : \A a \in Names(loaded[c]), b \in Asked(c) :
          SecondAtAccelerator(c, a, b) => FirstGivesWay(c, a, b)]_vars

\* C2, amended: the same, where with host limit 1 the first record is left on
\* cpu provided no third record of the class is on the host (one that is, and
\* is visited first, takes the host's place and the first record is removed).
C2_DemotesOrEvicts ==
    [][\A c \in Hard : \A a \in Names(loaded[c]), b \in Asked(c) :
          (SecondAtAccelerator(c, a, b) /\ (ram_limits[c] = 1 => InRam(loaded[c]) \subseteq {b}))
              => FirstGivesWay(c, a, b)]_vars

\* C2, its case reached: a get_component built a record, put it on the
\* accelerator and moved the record that was there to the host, the host
\* limit being 1
C2_Witness ==
    \E c \in Hard :
        /\ ram_limits[c] = 1
        /\ ret.op = "get_component" /\ ret.comp = c /\ ret.outcome = "ok" /\ ret.built
        /\ InVram(loaded[c]) = {ret.name}
        /\ ret.demoted # {}
        /\ ret.demoted = InRam(loaded[c])

\* the file name of an adapter without its folders and its extension
Stem(m) ==
    LET seps == {i \in 1..Len(m) : m[i] = sep}
        base == IF seps = {} THEN m
                ELSE SubSeq(m, (CHOOSE i \in seps : \A j \in seps : j <= i) + 1, Len(m))
    IN  IF Len(base) > 2 /\ base[Len(base) - 1] = "." THEN SubSeq(base, 1, Len(base) - 2)
        ELSE base

\* whether an adapter of the class is named by the used set: by its name, by
\* its file name without extension, or by a short name that get_lora /
\* get_hypernetwork / get_controlnet load it for
InUsed(comp, m, used) ==
    \/ m \in used
    \/ Stem(m) \in used
    \/ \E u \in used : resolve(comp, u) = m

\* C3: after enforce_network_limit(used, class) the resident adapters of the
\* class are exactly those that were resident and are named by used: the
\* others are removed, those named by used (by name or by a short name) kept.
\* The code keeps every adapter whose name holds sep + u + ".", so this fails.
C3_ExactlyUsed ==
    [][\A comp \in Networks, used \in UsedSets :
          enforce_network_limit(used, comp)
              => Names(loaded[comp])' = {m \in Names(loaded[comp]) : InUsed(comp, m, used)}]_vars

\* C5, as claimed: the builder is called for a name only on the first access
\* for that name, whatever was evicted, demoted, reset or cleared in between.
C5_Original ==
    [][(ret'.op = "get_component" /\ ret'.built)
          => <<ret'.comp, ret'.name>> \notin built]_vars

\* C5, amended: a get_component that returns calls the builder exactly when
\* the cache holds no record of the name at the call (on the first access and
\* on the first after the record was removed); a get_component of a resident
\* name, an adapter's included, returns the record without building or
\* reading anything.
C5_BuildsWhenAbsent ==
    [][(ret'.op = "get_component" /\ ret'.outcome = "ok")
          => LET held_before == ret'.name \in Names(loaded[ret'.comp])
             IN  /\ ret'.built <=> ~held_before
                 /\ ret'.built => <<ret'.comp, ret'.name>> \in built'
                 /\ held_before => ~ret'.read /\ built' = built]_vars

\* C5, its case reached: an adapter that was built before was asked for again
\* while resident, and returned without a call of the builder
C5_Witness ==
    \E comp \in Networks :
        /\ ret.op = "get_component" /\ ret.comp = comp /\ ret.outcome = "ok"
        /\ ~ret.built
        /\ <<comp, ret.name>> \in built
        /\ ret.name \in Names(loaded[comp])

\* whether the file of a known name has no sub-mapping for the class
Lacks(comp, name) ==
    /\ Known(comp, name)
    /\ comp \in {"UNET", "CLIP", "VAE"}
    /\ comp \notin SubComponents(FileOf(comp, name))

\* C6: get_component of a name the class does not know raises the ValueError
\* "unknown" and of a name whose file lacks the class the ValueError
\* "missing" (the call's record carries the class and the name, as the
\* message does); in both no record of any class is inserted, moved, demoted
\* or evicted and the builder is not called.
C6_FailsWithoutEffect ==
    [][(/\ ret'.op = "get_component"
        /\ ~Known(ret'.comp, ret'.name) \/ Lacks(ret'.comp, ret'.name))
          => /\ ret'.outcome = IF Known(ret'.comp, ret'.name) THEN "missing" ELSE "unknown"
             /\ loaded' = loaded
             /\ built' = built
             /\ ret'.evicted = {} /\ ret'.demoted = {}]_vars

\* C6, its case reached: a get_component failed on a file that lacks the
\* class while records of the file's other classes were resident
C6_Witness ==
    /\ ret.op = "get_component" /\ ret.outcome = "missing" /\ ret.comp = "VAE"
    /\ loaded["UNET"] # <<>>
    /\ loaded["VAE"] = <<>>

\* C9: clear_modified removes every resident UNET and CLIP record and empties
\* the raw-file cache, and leaves the records of every other class as they
\* were; reset removes the records of all classes; the get_component of a
\* UNET or CLIP that follows clear_modified reads the file and calls the
\* builder.
C9_ClearModifiedScope ==
    [][/\ ret'.op = "clear_modified"
          => /\ loaded'["UNET"] = <<>> /\ loaded'["CLIP"] = <<>>
             /\ file_cache' = <<>>
             /\ \A c \in Classes \ {"UNET", "CLIP"} : loaded'[c] = loaded[c]
       /\ ret'.op = "reset"
          => /\ \A c \in Classes : loaded'[c] = <<>>
             /\ file_cache' = <<>>
       /\ (/\ ret.op = "clear_modified"
           /\ ret'.op = "get_component" /\ ret'.comp \in {"UNET", "CLIP"}
           /\ ret'.outcome = "ok")
          => ret'.read /\ ret'.built]_vars

\* C9, its case reached: clear_modified removed UNET or CLIP records and left
\* a VAE record and an adapter resident
C9_Witness ==
    /\ ret.op = "clear_modified"
    /\ ret.evicted # {}
    /\ loaded["UNET"] = <<>> /\ loaded["CLIP"] = <<>>
    /\ loaded["VAE"] # <<>>
    /\ \E c \in Networks : loaded[c] # <<>>

\* the visiting orders of the records of a class
Orders(L) == {[i \in 1..Len(L) |-> L[p[i]]] : p \in Permutations(1..Len(L))}

\* what enforce_limit came to for the placement of current at device: the
\* records removed, those moved to the host, and the records off and on the
\* host, the record under placement counted where it is placed
Tally(L, L1, current, device) ==
    [evicted |-> Cardinality(Evicted(L, L1)),
     demoted |-> Cardinality(Demoted(L, L1, current)),
     vram |-> Cardinality(InVram(L1) \ {current}) + (IF device = "cpu" THEN 0 ELSE 1),
     ram |-> Cardinality(InRam(L1) \ {current}) + (IF device = "cpu" THEN 1 ELSE 0)]

\* C10: for the records of a class in any visiting order, any limits (here
\* of at least 1) and any placement of a record of the class, enforce_limit
\* evicts and demotes as many records and leaves as many off and on the host
\* as in any other order, and these counts do not exceed the limits.  The
\* number demoted depends on the order, so this fails.
C10_OrderIndependent ==
    \A c \in Hard, device \in Devices : \A current \in Asked(c) :
        \A allowed_vram \in 1..MaxLimit, allowed_ram \in 1..MaxLimit :
            LET L == IF resident(c, current) THEN loaded[c]
                     ELSE Insert(loaded[c], current, "cpu")
                T(P) == Tally(P, enforce_limit(P, current, allowed_vram, allowed_ram, device),
                              current, device)
            IN  \A P \in Orders(L) :
                    /\ T(P) = T(L)
                    /\ T(P).vram <= allowed_vram
                    /\ T(P).ram <= allowed_ram

\* C13: under get_component calls alone, at cpu and at the accelerator, the
\* records of a hard-limited class that the cache holds on cpu never exceed
\* the host limit of the class: none is on cpu when the limit is 0.  A record
\* asked for at cpu is built there and returned with no enforce_limit, and
\* enforce_limit never removes the record it places, so this fails.
C13_HostWithinLimit ==
    \A c \in Hard : Cardinality(InRam(loaded[c])) <= ram_limits[c]

----------------------------------------------------------------------------
(* Claims about the adapter network *)

\* whether a key set holds a Kronecker-factor or a middle-factor marker
Marked(keys) ==
    \E k \in keys : Contains(<<".", "lokr_">>, k) \/ Contains(<<".", "mid_">>, k)

\* C7: from_state_dict on a key set in which any key holds the marker lokr or
\* the marker mid raises the error of the marker, and the network's modules
\* are what they were before the call: none is created, whatever valid keys
\* the set holds, so that a new network has no modules afterwards.
C7_MarkersFailWholeLoad ==
    [][(net_ret'.op = "from_state_dict" /\ Marked(net_ret'.keys))
          => /\ net_ret'.outcome \in {"LoKR models are not supported",
                                      "CP-Decomposition is not supported"}
             /\ modules' = modules
             /\ net_ret.op = "init" => DOMAIN modules' = {}]_vars

\* C7, its case reached: a load failed on the Kronecker marker of one layer,
\* the keys of the other layer being complete, and the network has no
\* modules
C7_Witness ==
    /\ net_ret.op = "from_state_dict"
    /\ net_ret.outcome = "LoKR models are not supported"
    /\ {LY \o <<".">> \o UP, LY \o <<".">> \o DOWN} \subseteq net_ret.keys
    /\ DOMAIN modules = {}

\* C8: on every network instance, one without modules included, the first
\* precompute_decomposition runs compose (and then decompose), and every
\* later call runs neither, leaves the cached decomposition as it is and
\* does not call the callback.  The code tests the cache for emptiness, so a
\* network without modules composes and decomposes on every call.
C8_RunsOnce ==
    [][net_ret'.op = "precompute_decomposition"
          => IF compose_calls = 0
             THEN compose_calls' = 1 /\ decompose_calls' <= 1
             ELSE /\ compose_calls' = compose_calls
                  /\ decompose_calls' = decompose_calls
                  /\ decomposition' = decomposition
                  /\ net_ret'.callbacks = 0]_vars

\* the layers of the network that the model has
Matching == {l \in DOMAIN modules : strip(modules[l].layer_name) \in model_layers}

\* C4: a static attach of a network name that model.static does not hold
\* records the strength of that moment and calls attach_lora once on each
\* matching layer; a static attach of a name that it holds changes nothing;
\* so that no baseline is ever replaced and no layer is merged twice for one
\* name, however many static attaches there are.
C4_StaticAttachOnce ==
    [][/\ (Attach /\ net_ret'.outcome = "static")
          => /\ net_name \notin DOMAIN model_static
             /\ model_static' = (net_name :> strength) @@ model_static
             /\ \A l \in Matching : merged'[<<net_name, l>>] = 1
       /\ (Attach /\ net_ret'.outcome = "static already")
          => /\ net_name \in DOMAIN model_static
             /\ UNCHANGED <<model_static, merged, held>>
       /\ \A n \in DOMAIN model_static :
             n \in DOMAIN model_static' /\ model_static'[n] = model_static[n]
       /\ \A p \in DOMAIN merged' : merged'[p] = 1]_vars

\* C4, its case reached: a static attach of a name attached before, at a
\* strength other than its baseline, found the name recorded and its layers
\* merged
C4_Witness ==
    /\ net_ret.op = "attach" /\ net_ret.outcome = "static already"
    /\ net_name \in DOMAIN model_static
    /\ model_static[net_name] # strength
    /\ \E l \in LayerNames : <<net_name, l>> \in DOMAIN merged
    /\ Matching # {}

\* the kind the keys of one layer name are of: "LoHA" with the four Hadamard
\* factors, "LoRA" with lora_up and lora_down, "none" otherwise
OwnKind(keys, n) ==
    IF {n \o <<".">> \o sfx : sfx \in {W1A, W1B, W2A, W2B}} \subseteq keys THEN "LoHA"
    ELSE IF {n \o <<".">> \o sfx : sfx \in {UP, DOWN}} \subseteq keys THEN "LoRA"
    ELSE "none"

\* C11: from_state_dict on a key set without markers, each layer name of
\* which has the keys of a kind, builds for every layer name a module of the
\* kind of that name's own keys, also when names of both kinds occur, and a
\* new network then has exactly one module per layer name.  The code takes
\* every name for a LoHA when any key of the set holds ".hada_", so this
\* fails on a set of both kinds.
C11_ClassifiedPerPartition ==
    [][LET keys == net_ret'.keys
           names == {split_name(k) : k \in keys}
       IN  (/\ net_ret'.op = "from_state_dict"
            /\ ~Marked(keys)
            /\ \A n \in names : OwnKind(keys, n) # "none")
              => /\ net_ret'.outcome = "ok"
                 /\ \A n \in names :
                       n \in DOMAIN modules' /\ modules'[n].kind = OwnKind(keys, n)
                 /\ net_ret.op = "init" => DOMAIN modules' = names]_vars

\* C12: for every entry of a decomposition and every rank and conv_rank,
\* get_key_at_rank emits up, down and alpha where alpha and the inner
\* dimension of up and of down are the effective rank: conv_rank for a
\* convolution with a kernel larger than 1x1, else rank, at most in-dim and
\* out-dim.  decompose keeps SvdKeep components and the effective rank is not
\* held to that, so this fails for a rank above SvdKeep on a larger layer.
C12_EmitsEffectiveRank ==
    emitted.op = "get_key_at_rank"
        => LET size == emitted.size
               large == Len(size) = 4 /\ <<size[3], size[4]>> # <<1, 1>>
               e == Min(Min(IF large THEN emitted.conv_rank ELSE emitted.rank, size[2]),
                        size[1])
           IN  /\ emitted.outcome = "ok"
               /\ emitted.alpha = e
               /\ emitted.up[2] = e
               /\ emitted.down[1] = e

====
